---- MODULE Spec2Model ----
(***************************************************************************)
(* A model of src/main.py: the metrics buffer (measures) with its          *)
(* size-triggered flush (attempt_measures_insert), the load harness        *)
(* (insert_data), the read harness (read_data), the image sampler          *)
(* (generate_random_images) and the driver (main).                         *)
(*                                                                         *)
(* The program is single-threaded; pc is the position of the one thread.   *)
(* The store (pymongo) is the environment: every insert_many either        *)
(* succeeds or raises, chosen nondeterministically.  An exception nobody   *)
(* catches ends the process: status takes the exception's name and pc      *)
(* stays on the statement that raised it.                                  *)
(*                                                                         *)
(* Timing fields (process_time, date) of a measurement event are not       *)
(* modelled; an event is its measure name and its items_processed.         *)
(***************************************************************************)
EXTENDS Integers, Sequences, FiniteSets, TLC

(***************************************************************************)
(* Bounds.  LOAD_RUNS, READ_RUNS, STUDIES, DEFAULT_SZ and IMG_COUNT are    *)
(* the source's loop counts and watermark (1000, 10000, 1000, 1000, 10)    *)
(* scaled down so that the state space is finite and small; every          *)
(* comparison against them is the source's.  MaxFiles bounds the number of *)
(* files under the data directory.                                         *)
(***************************************************************************)
LOAD_RUNS == 2
READ_RUNS == 2
STUDIES == 2
DEFAULT_SZ == 2
IMG_COUNT == 1
MaxFiles == 2

LOAD_MEASURE == "load"
READ_MEASURE == "read"
IMG_MEASURE == "img"
MIX_MEASURE == "mix"

VARIABLES
    measure,     \* args.measure
    noimg,       \* args.noimg
    drop,        \* args.drop
    hasDb,       \* whether args.uri names a database (client.get_database())
    datadir,     \* the files os.walk yields, in order: TRUE = decodable
    dcm,         \* the store's dcm collection: a sequence of Records
    metrics,     \* the store's metrics collection: events written by this run
    measures,    \* the in-process metrics buffer
    pc,          \* position of the thread
    status,      \* "running", "exit0", "exit1" or the uncaught exception
    i,           \* the loop variable i of the function being run
    w,           \* insert_data: w
    study,       \* insert_data: study
    walk,        \* insert_data: index of the next file of the os.walk
    to_insert,   \* insert_data: to_insert
    total_count, \* read_data: total_count
    studies,     \* read_data: studies; generate_random_images: items
    trace,       \* history: the calls made so far, in order
    dataset,     \* process_data: its argument, a sequence of data elements
    document     \* process_data: the dictionary it has returned

vars == <<measure, noimg, drop, hasDb, datadir, dcm, metrics, measures, pc,
          status, i, w, study, walk, to_insert, total_count, studies, trace,
          dataset, document>>

args == <<measure, noimg, drop, hasDb, datadir>>
loadLocals == <<w, study, walk, to_insert>>
conv == <<dataset, document>>

----------------------------------------------------------------------------
(* Events, Records and the store's queries *)

Event(m, n) == [measure |-> m, items_processed |-> n]

Record(fn, version, s, pixels) ==
    [fn |-> fn, version |-> version, study |-> s, pixels |-> pixels]

\* db['dcm'].distinct('meta.study')
Distinct(coll) == {coll[k].study : k \in 1..Len(coll)}

\* mutant: the query has lost its filter
Find_NoFilter(coll, s) == coll

\* the documents db['dcm'].find({'meta.study': s}) streams
Find(coll, s) == SelectSeq(coll, LAMBDA d : d.study = s)

\* history entries
Recorded(e) == [op |-> "record", ev |-> e]
Flushed(sz, n, outcome) == [op |-> "flush", sz |-> sz, n |-> n, outcome |-> outcome]
Bulk(iter, docs, ok) == [op |-> "bulk", i |-> iter, docs |-> docs, ok |-> ok]
Picked(s) == [op |-> "pick", study |-> s]
Called(f) == [op |-> "call", fn |-> f]

----------------------------------------------------------------------------
(* attempt_measures_insert(db, sz): the result of one call on buffer buf,  *)
(* when the store's insert_many succeeds (writeOk) or raises.              *)
(*   measures: the buffer afterwards; written: what reached the store;     *)
(*   outcome: "noop" (no write attempted), "ok", or "raise" (re-raised).   *)

\* mutant: the buffer is cleared whether or not the write succeeded
attempt_measures_insert_ClearAlways(buf, sz, writeOk) ==
    IF Len(buf) > sz
    THEN IF writeOk
         THEN [measures |-> <<>>, written |-> buf, outcome |-> "ok"]
         ELSE [measures |-> <<>>, written |-> <<>>, outcome |-> "raise"]
    ELSE [measures |-> buf, written |-> <<>>, outcome |-> "noop"]

\* mutant: measures.clear() is missing after a successful write
attempt_measures_insert_NoClear(buf, sz, writeOk) ==
    IF Len(buf) > sz
    THEN IF writeOk
         THEN [measures |-> buf, written |-> buf, outcome |-> "ok"]
         ELSE [measures |-> buf, written |-> <<>>, outcome |-> "raise"]
    ELSE [measures |-> buf, written |-> <<>>, outcome |-> "noop"]

\* mutant: the comparison is >= instead of >
attempt_measures_insert_AtLeast(buf, sz, writeOk) ==
    IF Len(buf) >= sz
    THEN IF writeOk
         THEN [measures |-> <<>>, written |-> buf, outcome |-> "ok"]
         ELSE [measures |-> buf, written |-> <<>>, outcome |-> "raise"]
    ELSE [measures |-> buf, written |-> <<>>, outcome |-> "noop"]

attempt_measures_insert(buf, sz, writeOk) ==
    IF Len(buf) > sz
    THEN IF writeOk
         THEN [measures |-> <<>>, written |-> buf, outcome |-> "ok"]
         ELSE [measures |-> buf, written |-> <<>>, outcome |-> "raise"]
    ELSE [measures |-> buf, written |-> <<>>, outcome |-> "noop"]

\* mutant: the caller's version is not used, the default version=1 is
process_dcm_file_DefaultVersion(fn, version, s, ni) == Record(fn, 1, s, ~ni)

\* process_dcm_file on a decodable file: the Record (its meta sub-document)
process_dcm_file(fn, version, s, ni) == Record(fn, version, s, ~ni)

----------------------------------------------------------------------------
(* Initial states: the command line, the data directory, the store *)

DataDirs == UNION {[1..n -> BOOLEAN] : n \in 0..MaxFiles}

\* what earlier runs may have left in the store
InitStores ==
    { <<>>,
      << Record(1, 1, 1, TRUE), Record(2, 1, 1, TRUE), Record(1, 2, 2, FALSE) >> }

Init ==
    /\ measure \in {LOAD_MEASURE, READ_MEASURE, IMG_MEASURE, MIX_MEASURE, "other"}
    /\ noimg \in BOOLEAN
    /\ drop \in BOOLEAN
    /\ hasDb \in BOOLEAN
    /\ datadir \in DataDirs
    /\ dcm \in InitStores
    /\ metrics = <<>>
    /\ measures = <<>>
    /\ pc = "start"
    /\ status = "running"
    /\ i = 0
    /\ w = 0
    /\ study = 0
    /\ walk = 0
    /\ to_insert = <<>>
    /\ total_count = 0
    /\ studies = {}
    /\ trace = <<>>
    /\ dataset = <<>>
    /\ document = <<>>

----------------------------------------------------------------------------
(* main, lines 354-372: resolve the database, optionally drop it *)

\* mutant: the failure to resolve the database is logged and main goes on
Startup_NoExit ==
    /\ pc = "start" /\ status = "running"
    /\ dcm' = IF hasDb /\ drop THEN <<>> ELSE dcm
    /\ pc' = "main_load"
    /\ UNCHANGED <<conv, args, metrics, measures, status, i, loadLocals, total_count,
                   studies, trace>>

Startup ==
    /\ pc = "start" /\ status = "running"
    /\ IF hasDb
       THEN /\ dcm' = IF drop THEN <<>> ELSE dcm
            /\ pc' = "main_load"
            /\ status' = status
       ELSE /\ status' = "exit1"
            /\ UNCHANGED <<dcm, pc>>
    /\ UNCHANGED <<conv, args, metrics, measures, i, loadLocals, total_count,
                   studies, trace>>

----------------------------------------------------------------------------
(* insert_data *)

\* main, lines 378-379
CallInsertData ==
    /\ pc = "main_load" /\ status = "running"
    /\ measure \in {LOAD_MEASURE, MIX_MEASURE}
    /\ to_insert' = <<>>
    /\ i' = 1
    /\ pc' = "insert_data"
    /\ trace' = Append(trace, Called("insert_data"))
    /\ UNCHANGED <<conv, args, dcm, metrics, measures, status, w, study, walk,
                   total_count, studies>>

SkipInsertData ==
    /\ pc = "main_load" /\ status = "running"
    /\ measure \notin {LOAD_MEASURE, MIX_MEASURE}
    /\ pc' = "main_read"
    /\ UNCHANGED <<conv, args, dcm, metrics, measures, status, i, loadLocals,
                   total_count, studies, trace>>

\* lines 274-277: the head of one iteration
BeginIteration ==
    /\ pc = "insert_data" /\ status = "running"
    /\ i <= LOAD_RUNS
    /\ w' = 0
    /\ study' \in 1..STUDIES
    /\ walk' = 1
    /\ pc' = "load_walk"
    /\ UNCHANGED <<conv, args, dcm, metrics, measures, status, i, to_insert,
                   total_count, studies, trace>>

\* mutant: a file that cannot be decoded is skipped and the walk goes on
ProcessFile_SkipBad ==
    /\ pc = "load_walk" /\ status = "running"
    /\ walk <= Len(datadir)
    /\ IF datadir[walk]
       THEN /\ w' = w + 1
            /\ to_insert' = Append(to_insert, process_dcm_file(walk, i, study, noimg))
            /\ measures' = Append(measures, Event("dcm_process", 1))
            /\ trace' = Append(trace, Recorded(Event("dcm_process", 1)))
       ELSE /\ w' = w + 1
            /\ UNCHANGED <<to_insert, measures, trace>>
    /\ walk' = walk + 1
    /\ UNCHANGED <<conv, args, dcm, metrics, pc, status, i, study, total_count, studies>>

\* lines 278-282 with process_dcm_file (218-260): one file of the walk
ProcessFile ==
    /\ pc = "load_walk" /\ status = "running"
    /\ walk <= Len(datadir)
    /\ IF datadir[walk]
       THEN /\ w' = w + 1
            /\ to_insert' = Append(to_insert, process_dcm_file(walk, i, study, noimg))
            /\ measures' = Append(measures, Event("dcm_process", 1))
            /\ trace' = Append(trace, Recorded(Event("dcm_process", 1)))
            /\ walk' = walk + 1
            /\ status' = status
       ELSE /\ w' = w + 1
            /\ status' = "DecodeError"
            /\ UNCHANGED <<to_insert, measures, trace, walk>>
    /\ UNCHANGED <<conv, args, dcm, metrics, pc, i, study, total_count, studies>>

\* db[...].insert_many(docs) can succeed only on a non-empty list: pymongo
\* raises TypeError on an empty one (caught like any other Exception)
CanInsert(docs) == docs /= <<>>

\* mutant: insert_time reports the running count w instead of the acknowledged
\* documents
TryBulkWrite_ItemsFromW ==
    /\ pc = "load_walk" /\ status = "running"
    /\ walk > Len(datadir)
    /\ \/ /\ CanInsert(to_insert)
          /\ \E writeOk \in BOOLEAN :
               LET n == Len(to_insert)
                   e == Event("insert_time", w + n)
                   buf == Append(measures, e)
                   f == attempt_measures_insert(buf, DEFAULT_SZ, writeOk)
               IN /\ dcm' = dcm \o to_insert
                  /\ w' = w + n
                  /\ measures' = f.measures
                  /\ metrics' = metrics \o f.written
                  /\ trace' = trace \o << Bulk(i, to_insert, TRUE), Recorded(e),
                                          Flushed(DEFAULT_SZ, Len(buf), f.outcome) >>
       \/ /\ trace' = Append(trace, Bulk(i, to_insert, FALSE))
          /\ UNCHANGED <<dcm, w, measures, metrics>>
    /\ pc' = "load_end"
    /\ UNCHANGED <<conv, args, status, i, study, walk, to_insert, total_count, studies>>

\* mutant: line 286 is missing, w counts the files only
TryBulkWrite_CountOnce ==
    /\ pc = "load_walk" /\ status = "running"
    /\ walk > Len(datadir)
    /\ \/ /\ CanInsert(to_insert)
          /\ \E writeOk \in BOOLEAN :
               LET n == Len(to_insert)
                   e == Event("insert_time", n)
                   buf == Append(measures, e)
                   f == attempt_measures_insert(buf, DEFAULT_SZ, writeOk)
               IN /\ dcm' = dcm \o to_insert
                  /\ w' = w
                  /\ measures' = f.measures
                  /\ metrics' = metrics \o f.written
                  /\ trace' = trace \o << Bulk(i, to_insert, TRUE), Recorded(e),
                                          Flushed(DEFAULT_SZ, Len(buf), f.outcome) >>
       \/ /\ trace' = Append(trace, Bulk(i, to_insert, FALSE))
          /\ UNCHANGED <<dcm, w, measures, metrics>>
    /\ pc' = "load_end"
    /\ UNCHANGED <<conv, args, status, i, study, walk, to_insert, total_count, studies>>

\* lines 283-298: the try block after the walk has ended.  insert_many either
\* succeeds (every document acknowledged) or raises (modelled as having
\* written nothing); attempt_measures_insert runs only on the success path,
\* and what it raises is caught by the same except clause.
TryBulkWrite ==
    /\ pc = "load_walk" /\ status = "running"
    /\ walk > Len(datadir)
    /\ \/ /\ CanInsert(to_insert)
          /\ \E writeOk \in BOOLEAN :
               LET n == Len(to_insert)
                   e == Event("insert_time", n)
                   buf == Append(measures, e)
                   f == attempt_measures_insert(buf, DEFAULT_SZ, writeOk)
               IN /\ dcm' = dcm \o to_insert
                  /\ w' = w + n
                  /\ measures' = f.measures
                  /\ metrics' = metrics \o f.written
                  /\ trace' = trace \o << Bulk(i, to_insert, TRUE), Recorded(e),
                                          Flushed(DEFAULT_SZ, Len(buf), f.outcome) >>
       \/ /\ trace' = Append(trace, Bulk(i, to_insert, FALSE))
          /\ UNCHANGED <<dcm, w, measures, metrics>>
    /\ pc' = "load_end"
    /\ UNCHANGED <<conv, args, status, i, study, walk, to_insert, total_count, studies>>

\* mutant: to_insert.clear() is missing
EndIteration_NoClear ==
    /\ pc = "load_end" /\ status = "running"
    /\ measures' = Append(measures, Event("series_time", w))
    /\ trace' = Append(trace, Recorded(Event("series_time", w)))
    /\ i' = i + 1
    /\ pc' = "insert_data"
    /\ UNCHANGED <<conv, args, dcm, metrics, status, loadLocals, total_count, studies>>

\* lines 299-307: the tail of the iteration
EndIteration ==
    /\ pc = "load_end" /\ status = "running"
    /\ to_insert' = <<>>
    /\ measures' = Append(measures, Event("series_time", w))
    /\ trace' = Append(trace, Recorded(Event("series_time", w)))
    /\ i' = i + 1
    /\ pc' = "insert_data"
    /\ UNCHANGED <<conv, args, dcm, metrics, status, w, study, walk, total_count, studies>>

\* the loop of line 274 is over: insert_data returns to main
ReturnInsertData ==
    /\ pc = "insert_data" /\ status = "running"
    /\ i > LOAD_RUNS
    /\ pc' = "main_read"
    /\ UNCHANGED <<conv, args, dcm, metrics, measures, status, i, loadLocals,
                   total_count, studies, trace>>

----------------------------------------------------------------------------
(* read_data *)

\* main, lines 381-382, and read_data, lines 316-318
CallReadData ==
    /\ pc = "main_read" /\ status = "running"
    /\ measure \in {READ_MEASURE, MIX_MEASURE}
    /\ total_count' = 0
    /\ studies' = Distinct(dcm)
    /\ i' = 1
    /\ pc' = "read_data"
    /\ trace' = Append(trace, Called("read_data"))
    /\ UNCHANGED <<conv, args, dcm, metrics, measures, status, loadLocals>>

SkipReadData ==
    /\ pc = "main_read" /\ status = "running"
    /\ measure \notin {READ_MEASURE, MIX_MEASURE}
    /\ pc' = "main_img"
    /\ UNCHANGED <<conv, args, dcm, metrics, measures, status, i, loadLocals,
                   total_count, studies, trace>>

\* lines 319-333: one repetition.  random.choice raises IndexError on an
\* empty sequence; what attempt_measures_insert raises is not caught.
ReadRepetition ==
    /\ pc = "read_data" /\ status = "running"
    /\ i <= READ_RUNS
    /\ IF studies = {}
       THEN /\ status' = "IndexError"
            /\ UNCHANGED <<total_count, measures, metrics, trace, i>>
       ELSE \E s \in studies, writeOk \in BOOLEAN :
               LET count == Len(Find(dcm, s))
                   e == Event("single_read", count)
                   buf == Append(measures, e)
                   f == attempt_measures_insert(buf, DEFAULT_SZ, writeOk)
               IN /\ total_count' = total_count + count
                  /\ measures' = f.measures
                  /\ metrics' = metrics \o f.written
                  /\ trace' = trace \o << Picked(s), Recorded(e),
                                          Flushed(DEFAULT_SZ, Len(buf), f.outcome) >>
                  /\ IF f.outcome = "raise"
                     THEN status' = "WriteError" /\ i' = i
                     ELSE status' = status /\ i' = i + 1
    /\ UNCHANGED <<conv, args, dcm, pc, loadLocals, studies>>

\* lines 335-343: the total_read event and the flush after it
ReadTotal ==
    /\ pc = "read_data" /\ status = "running"
    /\ i > READ_RUNS
    /\ \E writeOk \in BOOLEAN :
         LET e == Event("total_read", total_count)
             buf == Append(measures, e)
             f == attempt_measures_insert(buf, DEFAULT_SZ, writeOk)
         IN /\ measures' = f.measures
            /\ metrics' = metrics \o f.written
            /\ trace' = trace \o << Recorded(e),
                                    Flushed(DEFAULT_SZ, Len(buf), f.outcome) >>
            /\ IF f.outcome = "raise"
               THEN status' = "WriteError" /\ pc' = pc
               ELSE status' = status /\ pc' = "main_img"
    /\ UNCHANGED <<conv, args, dcm, i, loadLocals, total_count, studies>>

----------------------------------------------------------------------------
(* generate_random_images *)

\* mutant: the test of args.noimg is missing
CallGenerateRandomImages_IgnoreNoimg ==
    /\ pc = "main_img" /\ status = "running"
    /\ measure \in {IMG_MEASURE, MIX_MEASURE}
    /\ studies' = Distinct(dcm)
    /\ i' = 1
    /\ pc' = "generate_random_images"
    /\ trace' = Append(trace, Called("generate_random_images"))
    /\ UNCHANGED <<conv, args, dcm, metrics, measures, status, loadLocals, total_count>>

\* main, lines 384-385, and generate_random_images, line 142
CallGenerateRandomImages ==
    /\ pc = "main_img" /\ status = "running"
    /\ ~noimg /\ measure \in {IMG_MEASURE, MIX_MEASURE}
    /\ studies' = Distinct(dcm)
    /\ i' = 1
    /\ pc' = "generate_random_images"
    /\ trace' = Append(trace, Called("generate_random_images"))
    /\ UNCHANGED <<conv, args, dcm, metrics, measures, status, loadLocals, total_count>>

SkipGenerateRandomImages ==
    /\ pc = "main_img" /\ status = "running"
    /\ ~(~noimg /\ measure \in {IMG_MEASURE, MIX_MEASURE})
    /\ pc' = "main_flush"
    /\ UNCHANGED <<conv, args, dcm, metrics, measures, status, i, loadLocals,
                   total_count, studies, trace>>

\* lines 143-159: one image.  random.choice raises IndexError on an empty
\* sequence; a document stored without pixels has no meta.r (KeyError).
ImageRepetition ==
    /\ pc = "generate_random_images" /\ status = "running"
    /\ i <= IMG_COUNT
    /\ IF studies = {}
       THEN /\ status' = "IndexError"
            /\ UNCHANGED <<measures, trace, i>>
       ELSE \E s \in studies :
               LET doc == Head(Find(dcm, s))
               IN IF doc.pixels
                  THEN /\ measures' = Append(measures, Event("img_process", 1))
                       /\ trace' = Append(trace, Recorded(Event("img_process", 1)))
                       /\ i' = i + 1
                       /\ status' = status
                  ELSE /\ status' = "KeyError"
                       /\ UNCHANGED <<measures, trace, i>>
    /\ UNCHANGED <<conv, args, dcm, metrics, pc, loadLocals, total_count, studies>>

ReturnGenerateRandomImages ==
    /\ pc = "generate_random_images" /\ status = "running"
    /\ i > IMG_COUNT
    /\ pc' = "main_flush"
    /\ UNCHANGED <<conv, args, dcm, metrics, measures, status, i, loadLocals,
                   total_count, studies, trace>>

----------------------------------------------------------------------------
(* main, lines 386-387 *)

\* mutant: the threshold argument 0 is missing, the default applies
FinalFlush_DefaultThreshold ==
    /\ pc = "main_flush" /\ status = "running"
    /\ \E writeOk \in BOOLEAN :
         LET f == attempt_measures_insert(measures, DEFAULT_SZ, writeOk)
         IN /\ measures' = f.measures
            /\ metrics' = metrics \o f.written
            /\ trace' = Append(trace, Flushed(DEFAULT_SZ, Len(measures), f.outcome))
            /\ IF f.outcome = "raise"
               THEN status' = "WriteError" /\ pc' = pc
               ELSE status' = status /\ pc' = "main_close"
    /\ UNCHANGED <<conv, args, dcm, i, loadLocals, total_count, studies>>

\* attempt_measures_insert(db, 0): what it raises is not caught
FinalFlush ==
    /\ pc = "main_flush" /\ status = "running"
    /\ \E writeOk \in BOOLEAN :
         LET f == attempt_measures_insert(measures, 0, writeOk)
         IN /\ measures' = f.measures
            /\ metrics' = metrics \o f.written
            /\ trace' = Append(trace, Flushed(0, Len(measures), f.outcome))
            /\ IF f.outcome = "raise"
               THEN status' = "WriteError" /\ pc' = pc
               ELSE status' = status /\ pc' = "main_close"
    /\ UNCHANGED <<conv, args, dcm, i, loadLocals, total_count, studies>>

\* client.close() and the normal end of the process
Close ==
    /\ pc = "main_close" /\ status = "running"
    /\ pc' = "done"
    /\ status' = "exit0"
    /\ trace' = Append(trace, Called("close"))
    /\ UNCHANGED <<conv, args, dcm, metrics, measures, i, loadLocals, total_count, studies>>

Next ==
    \/ Startup
    \/ CallInsertData
    \/ SkipInsertData
    \/ BeginIteration
    \/ ProcessFile
    \/ TryBulkWrite
    \/ EndIteration
    \/ ReturnInsertData
    \/ CallReadData
    \/ SkipReadData
    \/ ReadRepetition
    \/ ReadTotal
    \/ CallGenerateRandomImages
    \/ SkipGenerateRandomImages
    \/ ImageRepetition
    \/ ReturnGenerateRandomImages
    \/ FinalFlush
    \/ Close

Spec == Init /\ [][Next]_vars

----------------------------------------------------------------------------
(* Reading the history *)

IsPrefix(a, b) == Len(a) <= Len(b) /\ SubSeq(b, 1, Len(a)) = a

Max(a, b) == IF a >= b THEN a ELSE b

\* the events the record entries of seq appended, in order
EventsOf(seq) ==
    LET sel == SelectSeq(seq, LAMBDA x : x.op = "record")
    IN [k \in 1..Len(sel) |-> sel[k].ev]

\* seq has a flush call with this outcome
HasFlush(seq, outcome) ==
    \E k \in 1..Len(seq) : seq[k].op = "flush" /\ seq[k].outcome = outcome

\* the history entries the current step adds
NewEntries == SubSeq(trace', Len(trace) + 1, Len(trace'))

\* the largest number of events appended between two consecutive flush
\* checks (before the first and after the last included), scanning from k
RECURSIVE GapScan(_, _, _)
GapScan(k, cur, best) ==
    IF k > Len(trace) THEN Max(cur, best)
    ELSE IF trace[k].op = "flush" THEN GapScan(k + 1, 0, Max(cur, best))
    ELSE IF trace[k].op = "record" THEN GapScan(k + 1, cur + 1, best)
    ELSE GapScan(k + 1, cur, best)

MaxBatch == GapScan(1, 0, 0)

HarnessPcs == {"insert_data", "load_walk", "load_end", "read_data"}

----------------------------------------------------------------------------
(* C1: no silent loss.  In every step, a flush whose write succeeds moves  *)
(* the whole buffer (what it held before the step and what the step        *)
(* recorded, in order) to the store and leaves the buffer empty; in every  *)
(* other step, a failed flush included, the store is unchanged and the     *)
(* buffer is exactly what it was plus what the step recorded.  So an event *)
(* leaves the buffer only through a successful write, and the first        *)
(* successful write after a failure carries everything unflushed.          *)
C1_NoSilentLoss ==
    [][ LET rec == EventsOf(NewEntries)
        IN IF HasFlush(NewEntries, "ok")
           THEN metrics' = metrics \o measures \o rec /\ measures' = <<>>
           ELSE metrics' = metrics /\ measures' = measures \o rec ]_vars

\* a flush has failed, events were recorded after it, and the flush that
\* has just succeeded wrote every event recorded so far
C1_Witness ==
    /\ Len(trace) >= 2
    /\ trace[Len(trace)].op = "flush" /\ trace[Len(trace)].outcome = "ok"
    /\ \E a \in 1..Len(trace) :
          /\ trace[a].op = "flush" /\ trace[a].outcome = "raise"
          /\ \E b \in (a + 1)..Len(trace) : trace[b].op = "record"
          /\ ~HasFlush(SubSeq(trace, a + 1, Len(trace) - 1), "ok")
    /\ measures = <<>>
    /\ metrics = EventsOf(trace)

----------------------------------------------------------------------------
(* Where the run is, read from the history *)

WasCalled(f) == \E k \in 1..Len(trace) : trace[k] = Called(f)

\* read_data has returned to main
ReadReturned ==
    WasCalled("read_data") /\ pc \in {"main_img", "generate_random_images",
                                      "main_flush", "main_close", "done"}

\* the events recorded so far that are still buffered or already stored
AllEvents == metrics \o measures

EventsNamed(m) == SelectSeq(AllEvents, LAMBDA e : e.measure = m)

RECURSIVE SumItems(_)
SumItems(seq) ==
    IF seq = <<>> THEN 0 ELSE Head(seq).items_processed + SumItems(Tail(seq))

\* the main program got past startup and the process has ended
EndedAfterStartup == status \notin {"running", "exit1"}

(* C3: on a store with no studies, read_data raises no error, and when it  *)
(* has returned it has recorded READ_RUNS single_read events with          *)
(* items_processed 0 and one total_read event with items_processed 0.      *)
C3_ReadOnEmptyStore ==
    (WasCalled("read_data") /\ studies = {} /\ Distinct(dcm) = {})
        => /\ (pc = "read_data" => status = "running")
           /\ (ReadReturned =>
                 /\ EventsNamed("single_read") = [k \in 1..READ_RUNS |-> Event("single_read", 0)]
                 /\ EventsNamed("total_read") = << Event("total_read", 0) >>)

(* C4: every run that got past startup and has ended, normally or by an    *)
(* uncaught exception, has invoked the unconditional flush                 *)
(* (attempt_measures_insert with threshold 0).                             *)
C4_FinalDrain ==
    EndedAfterStartup
        => \E k \in 1..Len(trace) : trace[k].op = "flush" /\ trace[k].sz = 0

(* C5: a failed write of a thresholded flush never ends insert_data or     *)
(* read_data: the process is never stopped inside a harness by the         *)
(* exception the flush re-raises.                                          *)
C5_FlushFailureCaught ==
    pc \in HarnessPcs => status /= "WriteError"

LoadPcs == {"insert_data", "load_walk", "load_end"}

\* insert_data is running or has just returned to main: the bulk writes
\* and their events are made then, and the history keeps them as they are
LoadScope == LoadPcs \cup {"main_read"}

\* the positions of the bulk writes in the history
BulkIdx == {k \in 1..Len(trace) : trace[k].op = "bulk"}

Docs(k) == {trace[k].docs[d] : d \in 1..Len(trace[k].docs)}

(* C6: for every bulk write that failed, in iteration j say: the batch is  *)
(* empty when iteration j+1 starts; no document of that batch is in any    *)
(* later bulk write; the failure does not stop the harness (inside         *)
(* insert_data the process is still running), and insert_data is left only *)
(* after all LOAD_RUNS iterations have made their bulk-write attempt.      *)
C6_BestEffortBulkWrite ==
    pc \in LoadScope =>
    LET bulks == BulkIdx
    IN \A k \in bulks :
          ~trace[k].ok =>
             /\ ((pc = "insert_data" /\ i = trace[k].i + 1) => to_insert = <<>>)
             /\ (\A k2 \in bulks : k2 > k => Docs(k) \cap Docs(k2) = {})
             /\ (pc \in LoadPcs => status = "running")
             /\ (pc \notin LoadPcs => Cardinality(bulks) = LOAD_RUNS)

\* insert_data has returned after a first iteration whose bulk write of a
\* non-empty batch failed and a later iteration whose bulk write succeeded
C6_Witness ==
    /\ pc = "main_read"
    /\ \E k, k2 \in BulkIdx :
          /\ k < k2
          /\ trace[k].i = 1 /\ ~trace[k].ok /\ trace[k].docs /= <<>>
          /\ trace[k2].ok

(* C7: every bulk-write attempt of the load harness, failed ones included, *)
(* is followed within its iteration (before the next bulk write) by a      *)
(* call of the thresholded flush.                                          *)
C7_FlushEveryIteration ==
    \A k \in BulkIdx :
       \E f \in (k + 1)..Len(trace) :
          /\ trace[f].op = "flush"
          /\ trace[f].sz = DEFAULT_SZ
          /\ \A b \in BulkIdx : ~(k < b /\ b < f)

(* C8: in every step that calls the flush with watermark W on a buffer     *)
(* buf: if buf holds W or fewer events, no write is made and the buffer is *)
(* left as it is; if it holds more than W, exactly the whole of buf is     *)
(* handed to one write, which stores all of it or (raising) none.          *)
C8_ThresholdSemantics ==
    [][ \A k \in 1..Len(NewEntries) :
          LET e == NewEntries[k]
              buf == measures \o EventsOf(NewEntries)
          IN e.op = "flush" =>
               /\ e.n = Len(buf)
               /\ IF Len(buf) <= e.sz
                  THEN e.outcome = "noop" /\ metrics' = metrics /\ measures' = buf
                  ELSE /\ e.outcome \in {"ok", "raise"}
                       /\ (e.outcome = "ok" => metrics' = metrics \o buf)
                       /\ (e.outcome = "raise" => metrics' = metrics) ]_vars

\* a thresholded flush has met exactly DEFAULT_SZ events and written
\* nothing, and the flush just made met DEFAULT_SZ + 1 and wrote them all
C8_Witness ==
    /\ Len(trace) >= 1
    /\ trace[Len(trace)] = Flushed(DEFAULT_SZ, DEFAULT_SZ + 1, "ok")
    /\ \E a \in 1..Len(trace) : trace[a] = Flushed(DEFAULT_SZ, DEFAULT_SZ, "noop")
    /\ measures = <<>>
    /\ Len(metrics) >= DEFAULT_SZ + 1

(* C9: when read_data returns, the metrics buffer is empty (the flush      *)
(* after total_read is unconditional, and a failed write does not return). *)
C9_ReadEndsDrained ==
    (pc = "main_img" /\ WasCalled("read_data")) => measures = <<>>

\* the position of main's call of read_data in the history
ReadCallIdx == CHOOSE k \in 1..Len(trace) : trace[k] = Called("read_data")

(* C10: when read_data returns, its history is READ_RUNS repetitions, each *)
(* a pick of a study of the store, one single_read event whose             *)
(* items_processed is the number of documents of that study, and a         *)
(* thresholded flush; then one total_read event, whose items_processed is  *)
(* the sum over the single_read events, and a flush.  The events are the   *)
(* ones buffered or stored.                                                *)
C10_ReadAccounting ==
    (pc = "main_img" /\ WasCalled("read_data")) =>
       LET c == ReadCallIdx
           singles == EventsNamed("single_read")
           totals == EventsNamed("total_read")
       IN /\ Len(trace) = c + 3 * READ_RUNS + 2
          /\ Len(singles) = READ_RUNS
          /\ \A k \in 1..READ_RUNS :
                /\ trace[c + 3 * k - 2].op = "pick"
                /\ trace[c + 3 * k - 2].study \in Distinct(dcm)
                /\ singles[k].items_processed =
                      Cardinality({d \in 1..Len(dcm) :
                                      dcm[d].study = trace[c + 3 * k - 2].study})
                /\ trace[c + 3 * k - 1] = Recorded(singles[k])
                /\ trace[c + 3 * k].op = "flush"
                /\ trace[c + 3 * k].sz = DEFAULT_SZ
          /\ Len(totals) = 1
          /\ totals[1].items_processed = SumItems(singles)
          /\ trace[c + 3 * READ_RUNS + 1] = Recorded(totals[1])
          /\ trace[c + 3 * READ_RUNS + 2].op = "flush"

\* read_data has returned having picked two different studies, with a
\* non-zero total
C10_Witness ==
    /\ pc = "main_img" /\ WasCalled("read_data")
    /\ \E a, b \in 1..Len(trace) :
          /\ trace[a].op = "pick" /\ trace[b].op = "pick"
          /\ trace[a].study /= trace[b].study
    /\ Len(EventsNamed("total_read")) = 1
    /\ EventsNamed("total_read")[1].items_processed > 0

----------------------------------------------------------------------------
(* Load accounting *)

IsSuffix(a, b) == Len(a) <= Len(b) /\ SubSeq(b, Len(b) - Len(a) + 1, Len(b)) = a

\* the documents of the successful bulk writes among trace[k..], in order
RECURSIVE AckedFrom(_)
AckedFrom(k) ==
    IF k > Len(trace) THEN <<>>
    ELSE IF trace[k].op = "bulk" /\ trace[k].ok THEN trace[k].docs \o AckedFrom(k + 1)
    ELSE AckedFrom(k + 1)

IsSeries(x) == x.op = "record" /\ x.ev.measure = "series_time"

(* C11: at every iteration boundary of insert_data, i-1 iterations being   *)
(* complete: there has been exactly one bulk write per iteration (the j-th *)
(* is iteration j's) and exactly one series_time event per iteration; a    *)
(* successful bulk write is followed at once by one insert_time event      *)
(* whose items_processed is the number of documents written (the store     *)
(* holds them), then the flush, then the iteration's series_time; a failed *)
(* one is followed by the series_time alone.  The recorded events are, in  *)
(* this order, the stored ones followed by the buffered ones.              *)
C11_LoadAccounting ==
    pc = "insert_data" =>
       LET bulks == SelectSeq(trace, LAMBDA x : x.op = "bulk")
       IN /\ Len(bulks) = i - 1
          /\ \A j \in 1..Len(bulks) : bulks[j].i = j
          /\ Len(EventsNamed("series_time")) = i - 1
          /\ Len(EventsNamed("insert_time"))
                = Len(SelectSeq(bulks, LAMBDA x : x.ok))
          /\ AllEvents = EventsOf(trace)
          /\ IsSuffix(AckedFrom(1), dcm)
          /\ \A k \in BulkIdx :
                IF trace[k].ok
                THEN /\ trace[k + 1] = Recorded(Event("insert_time", Len(trace[k].docs)))
                     /\ trace[k + 2].op = "flush"
                     /\ IsSeries(trace[k + 3])
                ELSE IsSeries(trace[k + 1])

\* insert_data is at its end with a failed bulk write of a non-empty batch
\* and a successful one behind it
C11_Witness ==
    /\ pc = "insert_data" /\ i = LOAD_RUNS + 1
    /\ \E k, k2 \in BulkIdx :
          /\ ~trace[k].ok /\ trace[k].docs /= <<>>
          /\ trace[k2].ok /\ Len(trace[k2].docs) = Len(datadir)

----------------------------------------------------------------------------
(* Decode failure *)

BadFiles == {b \in 1..Len(datadir) : ~datadir[b]}

(* C12: a file that cannot be ingested ends the run where it is met: the   *)
(* process stops on that file with the exception uncaught, holding a       *)
(* Record and a dcm_process event for each file walked before it and none  *)
(* for the file itself, no bulk write having been made; nothing runs       *)
(* afterwards.  With such a file in the directory insert_data never gets   *)
(* past the first one, in its first iteration.                             *)
C12_DecodeFailurePropagates ==
    /\ status = "DecodeError" =>
          /\ pc = "load_walk" /\ i = 1
          /\ walk \in BadFiles
          /\ Len(to_insert) = walk - 1
          /\ \A d \in 1..Len(to_insert) : to_insert[d].fn /= walk
          /\ Len(EventsNamed("dcm_process")) = walk - 1
          /\ BulkIdx = {}
          /\ ~ENABLED Next
    /\ (WasCalled("insert_data") /\ BadFiles /= {}) =>
          /\ pc \in {"insert_data", "load_walk"} /\ i = 1
          /\ \A b \in BadFiles : walk <= b
          /\ (status /= "running" => status = "DecodeError")

\* the process has stopped on an undecodable second file, the first one
\* having been ingested
C12_Witness ==
    /\ status = "DecodeError"
    /\ walk = 2
    /\ Len(to_insert) = 1 /\ to_insert[1].fn = 1
    /\ measures = << Event("dcm_process", 1) >>

----------------------------------------------------------------------------
(* The driver *)

(* C16: when the connection string names no database the process ends      *)
(* with exit status 1 at startup and with no other outcome: no component   *)
(* has been called, no flush attempted, no event recorded and the store is *)
(* untouched; exit status 1 has no other cause.                            *)
C16_FatalStartup ==
    /\ ~hasDb =>
          /\ pc = "start"
          /\ status \in {"running", "exit1"}
          /\ trace = <<>>
          /\ measures = <<>> /\ metrics = <<>>
          /\ dcm \in InitStores
          /\ (status = "exit1" => ~ENABLED Next)
    /\ status = "exit1" => ~hasDb

\* the process has exited with status 1 although a mixed workload on a
\* populated store was asked for, with the drop flag set
C16_Witness ==
    /\ status = "exit1"
    /\ measure = MIX_MEASURE /\ drop
    /\ dcm /= <<>>

(* C17: every bulk write of the load harness carries exactly one Record    *)
(* per file of the directory, in walk order, each with the version of the  *)
(* iteration that made the write and all with one study in 1..STUDIES;     *)
(* the iterations of successive bulk writes, hence the versions, increase  *)
(* strictly; no Record is in two bulk writes.                              *)
C17_BatchIsolation ==
    pc \in LoadScope =>
    LET bulks == BulkIdx
    IN /\ \A k \in bulks :
             LET b == trace[k]
             IN /\ Len(b.docs) = Len(datadir)
                /\ \A j \in 1..Len(b.docs) :
                      /\ b.docs[j].fn = j
                      /\ b.docs[j].version = b.i
                      /\ b.docs[j].study \in 1..STUDIES
                      /\ b.docs[j].study = b.docs[1].study
                      /\ b.docs[j].pixels = ~noimg
       /\ \A k, k2 \in bulks :
             k < k2 => /\ trace[k].i < trace[k2].i
                       /\ Docs(k) \cap Docs(k2) = {}

\* two bulk writes of full two-file batches have been made, for different
\* studies
C17_Witness ==
    \E k, k2 \in BulkIdx :
       /\ k < k2
       /\ Len(trace[k].docs) = 2 /\ Len(trace[k2].docs) = 2
       /\ trace[k].docs[1].study /= trace[k2].docs[1].study

\* the functions main has called so far, in order
CallsMade ==
    LET sel == SelectSeq(trace, LAMBDA x : x.op = "call")
    IN [k \in 1..Len(sel) |-> sel[k].fn]

\* the calls a run that nothing interrupts makes, from the command line
ExpectedCalls ==
    (IF measure = "load" \/ measure = "mix" THEN << "insert_data" >> ELSE <<>>)
    \o (IF measure = "read" \/ measure = "mix" THEN << "read_data" >> ELSE <<>>)
    \o (IF ~noimg /\ (measure = "img" \/ measure = "mix")
        THEN << "generate_random_images" >> ELSE <<>>)
    \o << "close" >>

\* the function an entry of the history comes from, for the entries only
\* one function makes
Owner(x) ==
    IF x.op = "bulk" THEN "insert_data"
    ELSE IF x.op = "pick" THEN "read_data"
    ELSE IF x.op = "record"
         THEN (IF x.ev.measure \in {"dcm_process", "insert_time", "series_time"}
               THEN "insert_data"
               ELSE IF x.ev.measure \in {"single_read", "total_read"}
               THEN "read_data"
               ELSE "generate_random_images")
    ELSE "any"

(* C18: the calls main has made are a prefix of: insert_data if the mode   *)
(* is load or mix, read_data if it is read or mix, generate_random_images  *)
(* if it is img or mix and noimg is not set, then close; a run that exits  *)
(* normally has made them all.  Whatever a component does, it does while   *)
(* it is the function called last (it completes before the next starts).   *)
(* The flush with threshold 0 is made once, after the last component's     *)
(* activity and before close.                                              *)
C18_WorkloadOrder ==
    /\ [](/\ IsPrefix(CallsMade, ExpectedCalls)
          /\ (status = "exit0" => CallsMade = ExpectedCalls)
          /\ (pc \in {"main_flush", "main_close", "done"}
                => Len(CallsMade) >= Len(ExpectedCalls) - 1)
          /\ \A k \in 1..Len(trace) :
                (trace[k].op = "flush" /\ trace[k].sz = 0) =>
                   /\ pc \in {"main_flush", "main_close", "done"}
                   /\ \A j \in 1..Len(trace) :
                         /\ (j < k => trace[j] /= Called("close"))
                         /\ (j > k => trace[j] = Called("close"))
          /\ (pc \in {"main_close", "done"}
                => \E k \in 1..Len(trace) :
                      trace[k].op = "flush" /\ trace[k].sz = 0))
    /\ [][\A n \in 1..Len(NewEntries) :
             Owner(NewEntries[n]) /= "any" =>
                /\ CallsMade /= <<>>
                /\ CallsMade[Len(CallsMade)] = Owner(NewEntries[n])]_vars

\* a mixed run with images has exited normally after all three components
C18_Witness ==
    /\ status = "exit0"
    /\ measure = MIX_MEASURE /\ ~noimg
    /\ CallsMade = << "insert_data", "read_data", "generate_random_images", "close" >>
    /\ \E k \in 1..Len(trace) : trace[k] = Recorded(Event("img_process", 1))

(* C19: the step main makes at its final flush (threshold 0): on an empty  *)
(* buffer it is one flush call that writes nothing, raises nothing and     *)
(* leaves the buffer empty; on a non-empty buffer it is one flush call     *)
(* that hands the whole buffer to one write, which either stores all of it *)
(* and empties the buffer, or raises and leaves both as they were.         *)
C19_UnconditionalFlush ==
    [][ (pc = "main_flush" /\ status = "running") =>
          /\ Len(NewEntries) = 1
          /\ NewEntries[1].op = "flush"
          /\ NewEntries[1].n = Len(measures)
          /\ IF measures = <<>>
             THEN /\ NewEntries[1].outcome = "noop"
                  /\ metrics' = metrics
                  /\ measures' = <<>>
                  /\ status' = "running"
             ELSE /\ NewEntries[1].outcome \in {"ok", "raise"}
                  /\ (NewEntries[1].outcome = "ok" =>
                        /\ metrics' = metrics \o measures
                        /\ measures' = <<>>
                        /\ status' = "running")
                  /\ (NewEntries[1].outcome = "raise" =>
                        /\ metrics' = metrics
                        /\ measures' = measures
                        /\ status' = "WriteError") ]_vars

\* after read_data, whose last flush emptied the buffer, the final flush
\* has found nothing to write
C19_Witness ==
    /\ pc = "main_close" /\ status = "running"
    /\ WasCalled("read_data")
    /\ trace[Len(trace)] = Flushed(0, 0, "noop")
    /\ measures = <<>>
    /\ metrics /= <<>>

(* C20: the series_time event that follows a bulk write has                *)
(* items_processed equal to the number of files of the iteration when the  *)
(* write failed, and to that number plus the number of documents written   *)
(* when it succeeded.                                                      *)
C20_SeriesItems ==
    pc \in LoadScope =>
    LET all == AllEvents
    IN \A k \in BulkIdx :
          LET files == Len(datadir)
              s == IF trace[k].ok THEN k + 3 ELSE k + 1
          IN s <= Len(trace) =>
                /\ IsSeries(trace[s])
                /\ trace[s].ev.items_processed
                      = (IF trace[k].ok THEN files + Len(trace[k].docs) ELSE files)
                /\ \E e \in 1..Len(all) : all[e] = trace[s].ev

\* a two-file iteration whose bulk write succeeded has recorded a
\* series_time of 4, and one whose bulk write failed a series_time of 2
C20_Witness ==
    /\ Len(datadir) = 2
    /\ \E k, k2 \in BulkIdx :
          /\ trace[k].ok /\ k + 3 <= Len(trace)
          /\ trace[k + 3] = Recorded(Event("series_time", 4))
          /\ ~trace[k2].ok /\ k2 + 1 <= Len(trace)
          /\ trace[k2 + 1] = Recorded(Event("series_time", 2))

----------------------------------------------------------------------------
(* process_data (lines 187-215) as a function of a pydicom Dataset.        *)
(*                                                                         *)
(* A Dataset is the sequence of its data elements in the order iteration   *)
(* yields them (ascending tag, each tag once).  A data element is a record *)
(* with its tag (the 32-bit number), its VR, the python type of its value  *)
(* and the value: a string, a MultiValue (a sequence of strings, which     *)
(* pydicom allows to hold no entry), a PersonName3 (the object, with its   *)
(* original_string), or, for VR 'SQ', the sequence of its item Datasets.   *)

MaxDepth == 2   \* deepest nesting of sequence elements in an input
MaxItems == 2   \* most items of the outermost sequence element

\* the tag (group, elem) as the integer pydicom's Tag is
Tag(group, elem) == group * 65536 + elem

HexDigits ==
    << "0", "1", "2", "3", "4", "5", "6", "7",
       "8", "9", "a", "b", "c", "d", "e", "f" >>

\* element.tag.to_bytes(4, 'big').hex(): eight lower-case hex digits
Hex8(n) ==
    LET d(p) == HexDigits[((n \div (16 ^ p)) % 16) + 1]
    IN d(7) \o d(6) \o d(5) \o d(4) \o d(3) \o d(2) \o d(1) \o d(0)

\* data elements by the type of element.value
Scalar(tag, VR, value) ==
    [tag |-> tag, VR |-> VR, type |-> "str", value |-> value]
Multi(tag, VR, values) ==
    [tag |-> tag, VR |-> VR, type |-> "MultiValue", values |-> values]
Person(tag, s) ==
    [tag |-> tag, VR |-> "PN", type |-> "PersonName3",
     name |-> [original_string |-> s]]
SequenceOf(tag, items) ==
    [tag |-> tag, VR |-> "SQ", type |-> "Sequence", items |-> items]

\* pydicom.dataelem.isMultiValue(element.value)
isMultiValue(e) == e.type = "MultiValue"

\* mutant: the element with key 7fe00010 is converted like any other
RECURSIVE process_data_KeepPixels(_)
process_data_KeepPixels(ds) ==
    LET key(n) == Hex8(ds[n].tag)
        kept == 1..Len(ds)
        last(k) == CHOOSE n \in kept :
                      key(n) = k /\ \A m \in kept : key(m) = k => m <= n
        Value(e) ==
            IF e.VR = "SQ"
            THEN [j \in 1..Len(e.items) |-> process_data_KeepPixels(e.items[j])]
            ELSE IF isMultiValue(e) THEN e.values
            ELSE IF e.type = "PersonName3" THEN << e.name.original_string >>
            ELSE << e.value >>
    IN [k \in {key(n) : n \in kept} |->
          [vr |-> ds[last(k)].VR, Value |-> Value(ds[last(k)])]]

\* mutant: an item that converts to an empty dictionary is not appended
RECURSIVE process_data_SkipEmptyItems(_)
process_data_SkipEmptyItems(ds) ==
    LET key(n) == Hex8(ds[n].tag)
        kept == {n \in 1..Len(ds) : key(n) /= "7fe00010"}
        last(k) == CHOOSE n \in kept :
                      key(n) = k /\ \A m \in kept : key(m) = k => m <= n
        Value(e) ==
            IF e.VR = "SQ"
            THEN LET full == SelectSeq(e.items, LAMBDA x : x /= <<>>)
                 IN [j \in 1..Len(full) |-> process_data_SkipEmptyItems(full[j])]
            ELSE IF isMultiValue(e) THEN e.values
            ELSE IF e.type = "PersonName3" THEN << e.name.original_string >>
            ELSE << e.value >>
    IN [k \in {key(n) : n \in kept} |->
          [vr |-> ds[last(k)].VR, Value |-> Value(ds[last(k)])]]

\* process_data(dataset): the dictionary data it returns.  data[key] is
\* assigned once per element whose key is not '7fe00010'; a later
\* assignment to the same key would replace an earlier one.
RECURSIVE process_data(_)
process_data(ds) ==
    LET key(n) == Hex8(ds[n].tag)
        kept == {n \in 1..Len(ds) : key(n) /= "7fe00010"}
        last(k) == CHOOSE n \in kept :
                      key(n) = k /\ \A m \in kept : key(m) = k => m <= n
        Value(e) ==
            IF e.VR = "SQ"
            THEN [j \in 1..Len(e.items) |-> process_data(e.items[j])]
            ELSE IF isMultiValue(e) THEN e.values
            ELSE IF e.type = "PersonName3" THEN << e.name.original_string >>
            ELSE << e.value >>
    IN [k \in {key(n) : n \in kept} |->
          [vr |-> ds[last(k)].VR, Value |-> Value(ds[last(k)])]]

\* the data elements the inputs are built from, by ascending tag
ImageType(values) == Multi(Tag(8, 8), "CS", values)
StudyDate == Scalar(Tag(8, 32), "DA", "20240101")
NestedSequence(items) == SequenceOf(Tag(8, 33), items)
PrivateElement == Scalar(Tag(9, 16), "UN", "private")
PatientName == Person(Tag(16, 16), "Doe^John")
PixelData == Scalar(Tag(32736, 16), "OW", "pixels")

Opt(S) == {<<>>} \cup {<<e>> : e \in S}
SeqsUpTo(S, n) == UNION {[1..m -> S] : m \in 0..n}

\* the item Datasets that nest sequences at most d deep
RECURSIVE Items(_)
Items(d) ==
    IF d = 0
    THEN { <<>>, << StudyDate, PixelData >> }
    ELSE Items(0)
         \cup { << NestedSequence(<<>>) >> }
         \cup { << NestedSequence(<<x>>) >> : x \in Items(d - 1) }

Datasets ==
    { a \o b \o c \o d \o e \o f :
        a \in Opt({ImageType(<<"ORIGINAL", "PRIMARY">>), ImageType(<<>>)}),
        b \in Opt({StudyDate}),
        c \in Opt({NestedSequence(x) : x \in SeqsUpTo(Items(MaxDepth - 1), MaxItems)}),
        d \in Opt({PrivateElement}),
        e \in Opt({PatientName}),
        f \in Opt({PixelData}) }

\* one call of process_data, on any of the inputs
ConvInit ==
    /\ measure = LOAD_MEASURE
    /\ noimg = FALSE
    /\ drop = FALSE
    /\ hasDb = TRUE
    /\ datadir = <<>>
    /\ dcm = <<>>
    /\ metrics = <<>>
    /\ measures = <<>>
    /\ pc = "process_data"
    /\ status = "running"
    /\ i = 0
    /\ w = 0
    /\ study = 0
    /\ walk = 0
    /\ to_insert = <<>>
    /\ total_count = 0
    /\ studies = {}
    /\ trace = <<>>
    /\ dataset \in Datasets
    /\ document = <<>>

\* lines 198-215: the loop over the elements, and return data
Convert ==
    /\ pc = "process_data" /\ status = "running"
    /\ document' = process_data(dataset)
    /\ pc' = "returned"
    /\ UNCHANGED <<args, dcm, metrics, measures, status, i, loadLocals,
                   total_count, studies, trace, dataset>>

ConvNext == Convert

SpecConv == ConvInit /\ [][ConvNext]_vars

----------------------------------------------------------------------------
(* Claims about process_data *)

\* the hex keys of the tags of a Dataset's elements
TagKeys(ds) == {Hex8(ds[n].tag) : n \in 1..Len(ds)}

\* no dictionary of doc, at any nesting level, has the key 7fe00010
RECURSIVE NoPixelKey(_)
NoPixelKey(doc) ==
    /\ "7fe00010" \notin DOMAIN doc
    /\ \A k \in DOMAIN doc :
          doc[k].vr = "SQ" =>
             \A j \in 1..Len(doc[k].Value) : NoPixelKey(doc[k].Value[j])

\* a Dataset holds the element with tag (7fe0,0010), itself or in an item
RECURSIVE HasPixelData(_)
HasPixelData(ds) ==
    \E n \in 1..Len(ds) :
       \/ ds[n].tag = Tag(32736, 16)
       \/ ds[n].VR = "SQ" /\ \E j \in 1..Len(ds[n].items) : HasPixelData(ds[n].items[j])

(* C13: process_data returns for every input Dataset of the bounded depth, *)
(* the empty one included; the keys of the dictionary it returns are the   *)
(* eight-digit hex forms of the input's tags without 7fe00010; and         *)
(* 7fe00010 is a key at no nesting level of what it returns.               *)
C13_KeySetAndPixelExclusion ==
    /\ (pc = "process_data" =>
          DOMAIN process_data(dataset) = TagKeys(dataset) \ {"7fe00010"})
    /\ (pc = "returned" =>
          /\ DOMAIN document = TagKeys(dataset) \ {"7fe00010"}
          /\ \A k \in DOMAIN document : Len(k) = 8
          /\ Cardinality(DOMAIN document)
                = Cardinality({n \in 1..Len(dataset) : dataset[n].tag /= Tag(32736, 16)})
          /\ NoPixelKey(document)
          /\ (dataset = <<>> => document = <<>>))

\* a Dataset with pixel data of its own and in an item of an item has been
\* converted
C13_Witness ==
    /\ pc = "returned"
    /\ Len(dataset) = 6
    /\ dataset[6] = PixelData
    /\ \E j \in 1..Len(dataset[3].items) :
          dataset[3].items[j] = << NestedSequence(<< << StudyDate, PixelData >> >>) >>
    /\ DOMAIN document = {"00080008", "00080020", "00080021", "00090010", "00100010"}

\* doc renders the sequence elements of ds, at every nesting level, item
\* by item
RECURSIVE Faithful(_, _)
Faithful(doc, ds) ==
    \A n \in 1..Len(ds) :
       (ds[n].VR = "SQ" /\ Hex8(ds[n].tag) /= "7fe00010") =>
          LET node == doc[Hex8(ds[n].tag)]
              items == ds[n].items
          IN /\ node.vr = "SQ"
             /\ Len(node.Value) = Len(items)
             /\ \A j \in 1..Len(items) :
                   /\ (items[j] = <<>>) = (node.Value[j] = <<>>)
                   /\ DOMAIN node.Value[j] = TagKeys(items[j]) \ {"7fe00010"}
                   /\ node.Value[j] = process_data(items[j])
                   /\ Faithful(node.Value[j], items[j])

(* C14: for every element with VR 'SQ' and N >= 0 items, at every nesting  *)
(* level, the Value of its node is a list of exactly N dictionaries, the   *)
(* k-th being process_data of the k-th item; an item without elements      *)
(* gives an empty dictionary.                                              *)
C14_RecursiveFidelity ==
    pc = "returned" =>
       /\ Faithful(document, dataset)
       /\ \A n \in 1..Len(dataset) :
             dataset[n].VR = "SQ" => Hex8(dataset[n].tag) \in DOMAIN document

\* the example: a date, and a sequence of one item without elements
C14_Witness ==
    /\ pc = "returned"
    /\ dataset = << StudyDate, NestedSequence(<< <<>> >>) >>
    /\ DOMAIN document = {"00080020", "00080021"}
    /\ document["00080020"] = [vr |-> "DA", Value |-> << "20240101" >>]
    /\ document["00080021"] = [vr |-> "SQ", Value |-> << <<>> >>]

\* the node of every element of ds that is not a sequence, at every
\* nesting level, has a non-empty list as Value: the values of a
\* MultiValue, else the original_string of a PersonName3, else the value
RECURSIVE Normalized(_, _)
Normalized(doc, ds) ==
    \A n \in 1..Len(ds) :
       Hex8(ds[n].tag) /= "7fe00010" =>
          LET node == doc[Hex8(ds[n].tag)]
          IN IF ds[n].VR = "SQ"
             THEN \A j \in 1..Len(ds[n].items) :
                     Normalized(node.Value[j], ds[n].items[j])
             ELSE /\ Len(node.Value) >= 1
                  /\ node.vr = ds[n].VR
                  /\ IF ds[n].type = "MultiValue"
                     THEN node.Value = ds[n].values
                     ELSE IF ds[n].type = "PersonName3"
                     THEN node.Value = << ds[n].name.original_string >>
                     ELSE node.Value = << ds[n].value >>

(* C15: the Value of every node process_data produces for an element that  *)
(* is not a sequence is a non-empty list: the values in order for a        *)
(* multi-valued element, the original string alone for a personal name,    *)
(* the value alone for any other element, whatever its VR.                 *)
C15_ShapeNormalization ==
    pc = "returned" => Normalized(document, dataset)

====
